---------------------------- MODULE Spec2Model ----------------------------
(***************************************************************************)
(* coup_basic.py: the turn loop of GameManager.run_game with the deck, the *)
(* players' coins and influence cards, the challenge resolver and the      *)
(* action handlers.  Every decision a HumanPlayer or a ComputerPlayer can  *)
(* return (action, target, challenge, proof, card to reveal, cards to      *)
(* keep) and every card a shuffled deck can deliver is a nondeterministic  *)
(* choice.                                                                 *)
(***************************************************************************)
EXTENDS Integers, Sequences, FiniteSets, TLC

\* GameManager.__init__(pls = 3): the number of seats.
NumPlayers == 3

\* Deck.__init__: 3 + i copies of each role, i = 0 for three players.
CopiesPerRole == 3

\* The while loop of run_game is followed for this many passes from each
\* starting point.
MaxTurns == 1

\* The coin counts the legal-action list is tabulated for: 0 .. MaxCoins.
MaxCoins == 12

\* The longest list an unrestricted select_cards_to_keep returns.
MaxSelected == 3

\* initialize_players accepts 3 <= total_player_num <= 10.
MinPlayers == 3
MaxPlayersAllowed == 10

\* GameManager.__init__: "while total_player_num * 2 >= (3 + i) * 5: i += 2",
\* from i on.
RECURSIVE sizing(_, _)
sizing(pls, i) ==
  IF pls * 2 >= (3 + i) * 5 THEN sizing(pls, i + 2) ELSE i

\* Deck(i): 3 + i copies of each role.
copies_per_role(pls) == 3 + sizing(pls, 0)

\* The cards left in the deck when initialize_players has drawn 2 for each
\* player.
deck_after_deal(pls) == 5 * copies_per_role(pls) - 2 * pls

Seats == 0 .. (NumPlayers - 1)

\* Python's None for a seat (target_id, challenger): a value outside Seats.
Nobody == NumPlayers

\* Python's None for a Role.
NoRole == "none"

Role == {"duke", "assassin", "captain", "ambassador", "contessa"}

ActionType == {"income", "foreign_aid", "coup", "tax", "assassinate",
               "steal", "exchange"}

ACTION_CONFIG ==
  [a \in ActionType |->
     CASE a = "income"      -> [requires_target |-> FALSE, required_role |-> NoRole,
                                counterable_by |-> <<>>, coins_cost |-> 0]
       [] a = "foreign_aid" -> [requires_target |-> FALSE, required_role |-> NoRole,
                                counterable_by |-> <<"duke">>, coins_cost |-> 0]
       [] a = "coup"        -> [requires_target |-> TRUE, required_role |-> NoRole,
                                counterable_by |-> <<>>, coins_cost |-> 7]
       [] a = "tax"         -> [requires_target |-> FALSE, required_role |-> "duke",
                                counterable_by |-> <<>>, coins_cost |-> 0]
       [] a = "assassinate" -> [requires_target |-> TRUE, required_role |-> "assassin",
                                counterable_by |-> <<"contessa">>, coins_cost |-> 3]
       [] a = "steal"       -> [requires_target |-> TRUE, required_role |-> "captain",
                                counterable_by |-> <<"captain", "ambassador">>,
                                coins_cost |-> 0]
       [] a = "exchange"    -> [requires_target |-> FALSE, required_role |-> "ambassador",
                                counterable_by |-> <<>>, coins_cost |-> 0]]

\* Python truthiness of choice["target_id"]: None and 0 are both false.
Truthy(target_id) == target_id # Nobody /\ target_id # 0

Range(s) == {s[i] : i \in 1 .. Len(s)}

RECURSIVE SumOver(_, _)
SumOver(f, S) ==
  IF S = {} THEN 0
  ELSE LET x == CHOOSE y \in S : TRUE IN f[x] + SumOver(f, S \ {x})

--------------------------------------------------------------------------
(* Influence and Player *)

\* Influence(role): created face-down.
Influence(r) == [role |-> r, is_revealed |-> FALSE]

\* Player.get_hidden_cards, as positions in the influence list.
HiddenIdx(h) == {i \in 1 .. Len(h) : ~h[i].is_revealed}

\* Player.hidden_cards: the roles of the face-down cards, in list order.
hidden_cards(h) ==
  LET hid == SelectSeq(h, LAMBDA c : ~c.is_revealed)
  IN [i \in 1 .. Len(hid) |-> hid[i].role]

\* Player.is_alive: not all(i.is_reveal for i in influence).
is_alive(h) == ~(\A i \in 1 .. Len(h) : h[i].is_revealed)

\* Player.has_hidden_role.
has_hidden_role(h, r) == \E i \in 1 .. Len(h) : h[i].role = r /\ ~h[i].is_revealed

\* Influence.reveal on the card at position i.
reveal(h, i) == [h EXCEPT ![i].is_revealed = TRUE]

\* HumanPlayer/ComputerPlayer.lose_influence: the hands it can leave.  No
\* face-down card: returns None and changes nothing.  One: it is revealed.
\* Two: the player (or random.random) picks which.
lose_influence(h) ==
  IF HiddenIdx(h) = {} THEN {h}
  ELSE {reveal(h, i) : i \in HiddenIdx(h)}

\* list.remove(x): drops the first element equal to x (dataclass equality).
RemoveFirst(h, c) ==
  IF \E i \in 1 .. Len(h) : h[i] = c
  THEN LET k == CHOOSE i \in 1 .. Len(h) :
                  h[i] = c /\ \A j \in 1 .. (i - 1) : h[j] # c
       IN [i \in 1 .. (Len(h) - 1) |-> IF i < k THEN h[i] ELSE h[i + 1]]
  ELSE h

\* get_available_actions without "if self.coins >= 3": ASSASSINATE is always
\* listed.
get_available_actions_unchecked(c) ==
  IF c >= 10 THEN {"coup"}
  ELSE {"income", "steal", "tax", "exchange", "foreign_aid", "assassinate"}
         \cup (IF c >= 7 THEN {"coup"} ELSE {})

\* get_available_actions without "if self.coins >= 10": COUP is never forced.
get_available_actions_unforced(c) ==
  {"income", "steal", "tax", "exchange", "foreign_aid"}
    \cup (IF c >= 3 THEN {"assassinate"} ELSE {})
    \cup (IF c >= 7 THEN {"coup"} ELSE {})

\* Player.get_available_actions.
get_available_actions(c) ==
  IF c >= 10 THEN {"coup"}
  ELSE {"income", "steal", "tax", "exchange", "foreign_aid"}
         \cup (IF c >= 3 THEN {"assassinate"} ELSE {})
         \cup (IF c >= 7 THEN {"coup"} ELSE {})

--------------------------------------------------------------------------
(* Deck: a shuffled list, kept as the number of cards of each role *)

DeckSize(dk) == SumOver(dk, Role)

\* Deck.return_cards: extend, then shuffle.
RECURSIVE return_cards(_, _)
return_cards(dk, cards) ==
  IF cards = <<>> THEN dk
  ELSE return_cards([dk EXCEPT ![Head(cards)] = @ + 1], Tail(cards))

\* Deck.draw(1): the cards a shuffled deck can give from its top.
Draw1(dk) == {r \in Role : dk[r] > 0}

\* Deck.draw(2): the pairs, in the order popped.
Draw2(dk) ==
  {p \in Role \X Role :
     /\ dk[p[1]] > 0
     /\ [dk EXCEPT ![p[1]] = @ - 1][p[2]] > 0}

TakeOut(dk, cards) ==
  [r \in Role |-> dk[r] - Cardinality({i \in 1 .. Len(cards) : cards[i] = r})]

--------------------------------------------------------------------------
(* GameManager: the two exchanges and the challenge resolver *)

\* GameManager.exchange_single_card: the (hand, deck) pairs it can leave.
\* Without a face-down card of that role it returns False and changes
\* nothing; otherwise that card goes back into the deck, the deck is
\* shuffled and its top card is appended face-down.
exchange_single_card(h, dk, role_to_return) ==
  IF HiddenIdx(h) = {} \/ ~has_hidden_role(h, role_to_return)
  THEN {[hand |-> h, deck |-> dk]}
  ELSE LET removed  == RemoveFirst(h, Influence(role_to_return))
           returned == return_cards(dk, <<role_to_return>>)
       IN {[hand |-> Append(removed, Influence(new_card)),
            deck |-> TakeOut(returned, <<new_card>>)] : new_card \in Draw1(returned)}

\* select_cards_to_keep of HumanPlayer (keep_count picks, one at a time, out
\* of new_cards + hidden_cards, each pick removed from what remains) and of
\* ComputerPlayer (the keep_count heaviest of the same list, which is one
\* of those picks).
select_cards_to_keep(new_cards, hidden, keep_count) ==
  LET all_cards == new_cards \o hidden
      picks == {f \in [1 .. keep_count -> 1 .. Len(all_cards)] :
                  \A i, j \in 1 .. keep_count : i # j => f[i] # f[j]}
  IN {[i \in 1 .. keep_count |-> all_cards[f[i]]] : f \in picks}

\* exchange_two_cards, step 5.3: [c for c in all_cards if c not in selected].
unselected(all_cards, selected) ==
  SelectSeq(all_cards, LAMBDA c : c \notin Range(selected))

\* swap_hidden without step 5.1: the former face-down cards stay in the
\* hand.
swap_keeps_old(h, selected) ==
  h \o [i \in 1 .. Len(selected) |-> Influence(selected[i])]

\* swap_hidden that clears the whole hand, revealed cards included.
swap_whole_hand(h, selected) ==
  [i \in 1 .. Len(selected) |-> Influence(selected[i])]

\* The hand after step 5.1 and 5.2: every face-down card removed, the
\* selected roles appended face-down.
swap_hidden(h, selected) ==
  SelectSeq(h, LAMBDA c : c.is_revealed)
    \o [i \in 1 .. Len(selected) |-> Influence(selected[i])]

\* exchange_two_cards from step 4 on, with new_cards drawn and `selected`
\* returned by the player: ValueError when the number selected is not
\* keep_count (the two cards drawn are then out of the deck and in no hand);
\* otherwise steps 5.1 to 5.4, whatever roles were selected.
exchange_selected(h, dk, new_cards, selected) ==
  IF Len(selected) # Len(hidden_cards(h))
  THEN [hand |-> h, deck |-> TakeOut(dk, new_cards), error |-> TRUE,
        new_cards |-> new_cards, selected |-> selected]
  ELSE [hand  |-> swap_hidden(h, selected),
        deck  |-> return_cards(TakeOut(dk, new_cards),
                               unselected(new_cards \o hidden_cards(h), selected)),
        error |-> FALSE, new_cards |-> new_cards, selected |-> selected]

\* GameManager.exchange_two_cards: the outcomes [hand, deck, error,
\* new_cards, selected].  error is TRUE where the code raises ValueError (no
\* face-down card, or Deck.draw(2) on a deck of fewer than two cards).
exchange_two_cards(h, dk) ==
  LET hidden     == hidden_cards(h)
      keep_count == Len(hidden)
  IN IF keep_count = 0 \/ DeckSize(dk) < 2
     THEN {[hand |-> h, deck |-> dk, error |-> TRUE,
            new_cards |-> <<>>, selected |-> <<>>]}
     ELSE UNION {{exchange_selected(h, dk, new_cards, selected) :
                     selected \in select_cards_to_keep(new_cards, hidden, keep_count)} :
                 new_cards \in Draw2(dk)}

\* What a select_cards_to_keep of any Player may return (the base class
\* leaves it to be overridden): up to MaxSelected roles, in or out of the
\* pool.
AnySelection ==
  UNION {[1 .. n -> Role] : n \in 0 .. MaxSelected}

\* exchange_two_cards with such a player.
exchange_two_cards_unchecked(h, dk) ==
  IF hidden_cards(h) = <<>> \/ DeckSize(dk) < 2
  THEN {[hand |-> h, deck |-> dk, error |-> TRUE,
         new_cards |-> <<>>, selected |-> <<>>]}
  ELSE UNION {{exchange_selected(h, dk, new_cards, selected) :
                  selected \in AnySelection} :
              new_cards \in Draw2(dk)}

\* accused_loses without the call of lose_influence: no card is revealed.
accused_keeps(infl, pl1) == {infl}

\* What pl1 loses when its claim is not upheld: pl1.lose_influence().
accused_loses(infl, pl1) ==
  {[infl EXCEPT ![pl1] = h] : h \in lose_influence(infl[pl1])}

\* deal_challenge, the branch where pl1 reveals the proof:
\* exchange_single_card(pl1, role), then pl2.lose_influence().
proof_shown(infl, dk, pl1, pl2, role) ==
  UNION {LET swapped == [infl EXCEPT ![pl1] = x.hand]
         IN {[infl   |-> [swapped EXCEPT ![pl2] = h2],
              deck   |-> x.deck,
              result |-> FALSE,
              shown  |-> TRUE] : h2 \in lose_influence(swapped[pl2])} :
           x \in exchange_single_card(infl[pl1], dk, role)}

\* GameManager.deal_challenge(pl1, pl2, role), pl1 the accused and pl2 the
\* accuser: the outcomes [infl, deck, result, shown].  result TRUE: the
\* claim was not upheld.  pl1.deal_challenge() (reveal the proof or not) is
\* either answer; shown is TRUE where pl1 was asked and revealed it.
deal_challenge(infl, dk, pl1, pl2, role) ==
  IF ~has_hidden_role(infl[pl1], role)
  THEN {[infl |-> i2, deck |-> dk, result |-> TRUE, shown |-> FALSE] :
          i2 \in accused_loses(infl, pl1)}
  ELSE proof_shown(infl, dk, pl1, pl2, role)
         \cup {[infl |-> i2, deck |-> dk, result |-> TRUE, shown |-> FALSE] :
                 i2 \in accused_loses(infl, pl1)}

\* process_action_cost that takes one coin for every action.
process_action_cost_flat(c, action) ==
  IF c < 1 THEN [coins |-> c, error |-> TRUE]
  ELSE [coins |-> c - 1, error |-> FALSE]

\* GameManager.process_action_cost: [coins, error]; error where it raises
\* ValueError for a player who cannot pay.
process_action_cost(c, action) ==
  LET cost == ACTION_CONFIG[action].coins_cost
  IN IF cost = 0 THEN [coins |-> c, error |-> FALSE]
     ELSE IF c < cost THEN [coins |-> c, error |-> TRUE]
     ELSE [coins |-> c - cost, error |-> FALSE]

\* The handlers behind GameManager.execute_action(actor, choice): the
\* outcomes [coins, infl, deck, error].  With target_id None the handlers of
\* STEAL, ASSASSINATE and COUP stop in get_player_by_id, whose comparison
\* 0 <= None raises TypeError.
execute_action(cn, infl, dk, actor, ch) ==
  LET target == ch.target_id
      same   == [coins |-> cn, infl |-> infl, deck |-> dk, error |-> FALSE,
                 new_cards |-> <<>>, selected |-> <<>>]
  IN CASE ch.action \in {"steal", "assassinate", "coup"} /\ target = Nobody ->
            {[same EXCEPT !.error = TRUE]}
       [] ch.action = "income" ->
            {[same EXCEPT !.coins = [cn EXCEPT ![actor] = @ + 1]]}
       [] ch.action = "foreign_aid" ->
            {[same EXCEPT !.coins = [cn EXCEPT ![actor] = @ + 2]]}
       [] ch.action = "tax" ->
            {[same EXCEPT !.coins = [cn EXCEPT ![actor] = @ + 3]]}
       [] ch.action = "steal" ->
            LET stolen == IF cn[target] < 2 THEN cn[target] ELSE 2
                taken  == [cn EXCEPT ![target] = @ - stolen]
            IN {[same EXCEPT !.coins = [taken EXCEPT ![actor] = @ + stolen]]}
       [] ch.action \in {"assassinate", "coup"} ->
            {[same EXCEPT !.infl = [infl EXCEPT ![target] = h]] :
               h \in lose_influence(infl[target])}
       [] ch.action = "exchange" ->
            {[same EXCEPT !.infl = [infl EXCEPT ![actor] = x.hand],
                          !.deck = x.deck, !.error = x.error,
                          !.new_cards = x.new_cards, !.selected = x.selected] :
               x \in exchange_two_cards(infl[actor], dk)}

\* execute_action where ExchangeHandler meets a player of any kind.
execute_action_unchecked(cn, infl, dk, actor, ch) ==
  IF ch.action = "exchange"
  THEN {[coins |-> cn, infl |-> [infl EXCEPT ![actor] = x.hand], deck |-> x.deck,
         error |-> x.error, new_cards |-> x.new_cards, selected |-> x.selected] :
          x \in exchange_two_cards_unchecked(infl[actor], dk)}
  ELSE execute_action(cn, infl, dk, actor, ch)

--------------------------------------------------------------------------
(* GameManager: seats *)

\* GameManager.alive_players, as seats.
alive_players(infl) == {p \in Seats : is_alive(infl[p])}

\* is_game_over with "== 0" for "<= 1": the loop goes on for a sole survivor.
is_game_over_nobody_left(infl) == Cardinality(alive_players(infl)) = 0

\* GameManager.is_game_over.
is_game_over(infl) == Cardinality(alive_players(infl)) <= 1

\* GameManager.get_target_list: the player_id of every living player but
\* the current one.
get_target_list(infl, cur) == {p \in Seats : p # cur /\ is_alive(infl[p])}

\* The while loop of get_current_player from t_index on; Nobody when it has
\* looked at every seat and found no living player (the loop never ends).
RECURSIVE next_alive(_, _, _)
next_alive(infl, t_index, looked) ==
  IF looked = NumPlayers THEN Nobody
  ELSE IF is_alive(infl[t_index]) THEN t_index
  ELSE next_alive(infl, (t_index + 1) % NumPlayers, looked + 1)

\* get_current_player without its while loop: the next seat, alive or not.
get_current_player_no_skip(infl, cpi) == (cpi + 1) % NumPlayers

\* GameManager.get_current_player: the new current_player_index.
get_current_player(infl, cpi) == next_alive(infl, (cpi + 1) % NumPlayers, 0)

\* poll without its break: the seats after the first yes are asked too.
RECURSIVE poll_without_break(_, _, _, _, _)
poll_without_break(infl, base, skip, ans, off) ==
  IF off > NumPlayers THEN [asked |-> <<>>, who |-> Nobody]
  ELSE LET idx  == (base + off) % NumPlayers
           rest == poll_without_break(infl, base, skip, ans, off + 1)
       IN IF idx = skip \/ ~is_alive(infl[idx]) THEN rest
          ELSE [asked |-> <<idx>> \o rest.asked,
                who   |-> IF ans[idx] THEN idx ELSE rest.who]

\* The polling loops of run_game: for offset in range(1, n + 1), the seat
\* (base + offset) % n is passed over when it is `skip` or dead, asked
\* otherwise, and the loop breaks at the first yes.  ans is what each seat
\* would answer.  [asked: the seats asked, in order; who: the one who said
\* yes, or Nobody].
RECURSIVE poll(_, _, _, _, _)
poll(infl, base, skip, ans, off) ==
  IF off > NumPlayers THEN [asked |-> <<>>, who |-> Nobody]
  ELSE LET idx == (base + off) % NumPlayers
       IN IF idx = skip \/ ~is_alive(infl[idx])
          THEN poll(infl, base, skip, ans, off + 1)
          ELSE IF ans[idx] THEN [asked |-> <<idx>>, who |-> idx]
          ELSE LET rest == poll(infl, base, skip, ans, off + 1)
               IN [asked |-> <<idx>> \o rest.asked, who |-> rest.who]

\* after_claim_challenge without the early `continue`: a refuted claim goes
\* on to the cost phase.
claim_challenge_ignored(result) == "cost"

\* After a challenge to the actor's claim (run_game, "if result:"): the next
\* turn when the claim was not upheld, the cost phase when it was.
after_claim_challenge(result) == IF result THEN "select" ELSE "cost"

\* After a challenge to a counter ("if not result:"): the next turn when the
\* counter was upheld, the execution when it was not.
after_counter_challenge(result) == IF ~result THEN "select" ELSE "execute"

\* Line 1137 without "and ACTION_CONFIG[...].counterable_by": every action
\* with a target asks the target for a counter.
enters_counter_any_target(ch) == Truthy(ch.target_id)

\* run_game, "if choice['target_id'] and ...counterable_by": whether the
\* counter block is entered.
enters_counter(ch) ==
  Truthy(ch.target_id) /\ ACTION_CONFIG[ch.action].counterable_by # <<>>

\* The accused handed to deal_challenge when the target's counter is
\* challenged: self.current_player.
counter_accused(cur, target_player) == cur

--------------------------------------------------------------------------
(* State *)

VARIABLES
  coins,                 \* Player.coins of each seat
  influence,             \* Player.influence of each seat: a list of cards
  deck,                  \* Deck._cards: how many of each role
  current_player_index,  \* GameManager.current_player_index
  current_player,        \* GameManager.current_player, as its seat
  turn_count,            \* GameManager.turn_count
  pc,                    \* where run_game stands
  choice,                \* [action, target_id] of this turn
  challenger,            \* challenger / co_challenger
  target_choice,         \* target_choice / counter_choice
  offset,                \* the loop variable of the loop at line 1193
  winner,                \* the winner reported when the loop has ended
  sel,                   \* history: the state when the choice was made
  asked,                 \* history: the challenge_or_not calls of the turn
  answers,               \* history: the target_answer calls of the turn
  resolved,              \* history: the deal_challenge calls of the turn
  counters,              \* history: the counters declared in the turn
  execs,                 \* history: the execute_action calls of the turn
  events,                \* history: what the turn did, in order
  n_turns                \* how many passes of the while loop were started

game == <<coins, influence, deck>>
seat == <<current_player_index, current_player, turn_count>>
ctl  == <<choice, challenger, target_choice, offset, winner>>
hist == <<sel, asked, answers, resolved, counters, execs, events>>
vars == <<game, seat, ctl, hist, n_turns, pc>>

\* What the seats may answer to challenge_or_not.
Answers == [Seats -> BOOLEAN]

Revealed(r) == [role |-> r, is_revealed |-> TRUE]

FullDeck == [r \in Role |-> CopiesPerRole]

\* The deal every starting point below comes from: seat 0 holds duke and
\* assassin, seat 1 captain and contessa, seat 2 ambassador and duke.
Dealt == <<<<Influence("duke"), Influence("assassin")>>,
           <<Influence("captain"), Influence("contessa")>>,
           <<Influence("ambassador"), Influence("duke")>>>>

\* Heads of the while loop of run_game, each with the play that leads to it
\* (no card has left or entered the deck in any of them):
\*   the state GameManager.__init__ leaves;
\*   after seat 0 took INCOME;
\*   after five rounds of INCOME, and one and two INCOMEs later;
\*   after eight rounds of INCOME;
\*   five rounds of INCOME, then seat 0 COUPs seat 1 (contessa revealed);
\*   the same, then seat 1 COUPs seat 0 (duke revealed);
\*   five rounds of INCOME, seat 0 COUPs seat 1 (captain), seat 1 takes
\*     INCOME, seat 2 COUPs seat 1 (contessa): seat 1 is out;
\*   five rounds of INCOME, seat 0 INCOME, seat 1 COUPs seat 2 (duke), seat 2
\*     COUPs seat 1 (contessa), seat 0 COUPs seat 1 (captain), seat 2 INCOME:
\*     seat 1 is out and seat 2 holds one card;
\*   from there seat 0 claims duke for TAX, seat 2 challenges, seat 0 shows
\*     the duke and draws it back, seat 2 reveals ambassador, TAX pays 3:
\*     only seat 0 is left;
\*   five rounds of INCOME, seat 0 INCOME, seat 1 COUPs seat 2 (duke), seat 2
\*     INCOME: seat 0 holds 8 coins and seat 2 one card;
\*   five rounds of INCOME, seat 0 COUPs seat 1 (captain), seat 1 COUPs seat
\*     0 (duke), seat 2 COUPs seat 1 (contessa), seat 0 takes TAX
\*     unchallenged, seat 2 claims captain for STEAL, seat 0 challenges and
\*     seat 2 reveals its duke: seat 1 is out, seats 0 and 2 hold one card
\*     each and seat 0 has 3 coins.
Starts ==
  { [coins |-> <<2, 2, 2>>, hands |-> Dealt, index |-> 0, turn_count |-> 1],
    [coins |-> <<3, 2, 2>>, hands |-> Dealt, index |-> 1, turn_count |-> 2],
    [coins |-> <<7, 7, 7>>, hands |-> Dealt, index |-> 0, turn_count |-> 16],
    [coins |-> <<8, 7, 7>>, hands |-> Dealt, index |-> 1, turn_count |-> 17],
    [coins |-> <<8, 8, 7>>, hands |-> Dealt, index |-> 2, turn_count |-> 18],
    [coins |-> <<10, 10, 10>>, hands |-> Dealt, index |-> 0, turn_count |-> 25],
    [coins |-> <<0, 7, 7>>,
     hands |-> [Dealt EXCEPT ![2] = <<Influence("captain"), Revealed("contessa")>>],
     index |-> 1, turn_count |-> 17],
    [coins |-> <<0, 0, 7>>,
     hands |-> [Dealt EXCEPT ![1] = <<Revealed("duke"), Influence("assassin")>>,
                             ![2] = <<Influence("captain"), Revealed("contessa")>>],
     index |-> 2, turn_count |-> 18],
    [coins |-> <<0, 8, 0>>,
     hands |-> [Dealt EXCEPT ![2] = <<Revealed("captain"), Revealed("contessa")>>],
     index |-> 0, turn_count |-> 19],
    [coins |-> <<1, 0, 1>>,
     hands |-> [Dealt EXCEPT ![2] = <<Revealed("captain"), Revealed("contessa")>>,
                             ![3] = <<Influence("ambassador"), Revealed("duke")>>],
     index |-> 0, turn_count |-> 21],
    [coins |-> <<4, 0, 1>>,
     hands |-> <<<<Influence("assassin"), Influence("duke")>>,
                 <<Revealed("captain"), Revealed("contessa")>>,
                 <<Revealed("ambassador"), Revealed("duke")>>>>,
     index |-> 0, turn_count |-> 22],
    [coins |-> <<8, 0, 8>>,
     hands |-> [Dealt EXCEPT ![3] = <<Influence("ambassador"), Revealed("duke")>>],
     index |-> 0, turn_count |-> 19],
    [coins |-> <<3, 0, 0>>,
     hands |-> <<<<Revealed("duke"), Influence("assassin")>>,
                 <<Revealed("captain"), Revealed("contessa")>>,
                 <<Influence("ambassador"), Revealed("duke")>>>>,
     index |-> 0, turn_count |-> 21] }

Roles(h) == [i \in 1 .. Len(h) |-> h[i].role]

NoChoice == [action |-> "income", target_id |-> Nobody]

Snapshot(ch) ==
  [actor |-> current_player, index |-> current_player_index,
   action |-> ch.action, target_id |-> ch.target_id,
   coins |-> coins, influence |-> influence, deck |-> deck,
   turn_count |-> turn_count]

Init ==
  /\ \E st \in Starts :
       /\ coins = [p \in Seats |-> st.coins[p + 1]]
       /\ influence = [p \in Seats |-> st.hands[p + 1]]
       /\ deck = TakeOut(FullDeck,
                         Roles(st.hands[1]) \o Roles(st.hands[2]) \o Roles(st.hands[3]))
       /\ current_player_index = st.index
       /\ current_player = st.index
       /\ turn_count = st.turn_count
  /\ pc = "select"
  /\ choice = NoChoice
  /\ challenger = Nobody
  /\ target_choice = NoRole
  /\ offset = 0
  /\ winner = Nobody
  /\ sel = Snapshot(NoChoice)
  /\ asked = <<>>
  /\ answers = <<>>
  /\ resolved = <<>>
  /\ counters = <<>>
  /\ execs = <<>>
  /\ events = <<>>
  /\ n_turns = 0

--------------------------------------------------------------------------
(* run_game *)

\* "self.current_player = self.get_current_player(); self.turn_count += 1",
\* then run_game goes on at `to`.  With no living player get_current_player
\* never returns.
Advance(infl, to) ==
  LET t == get_current_player(infl, current_player_index)
  IN IF t = Nobody
     THEN /\ pc' = "hang"
          /\ UNCHANGED seat
     ELSE /\ current_player_index' = t
          /\ current_player' = t
          /\ turn_count' = turn_count + 1
          /\ pc' = to

AskedRecords(phase, seats, whom, role, who) ==
  [i \in 1 .. Len(seats) |->
     [phase |-> phase, who |-> seats[i], whom |-> whom, role |-> role,
      ans |-> (seats[i] = who)]]

Times(n, e) == [i \in 1 .. n |-> e]

\* The head of the while loop and get_player_choice: a legal action and,
\* where the action needs one, a target out of the target list.
Select ==
  /\ pc = "select"
  /\ n_turns < MaxTurns
  /\ n_turns' = n_turns + 1
  /\ ~is_game_over(influence)
  /\ \E a \in get_available_actions(coins[current_player]) :
       \E t \in (IF ACTION_CONFIG[a].requires_target
                    /\ get_target_list(influence, current_player) # {}
                 THEN get_target_list(influence, current_player)
                 ELSE {Nobody}) :
         /\ choice' = [action |-> a, target_id |-> t]
         /\ sel' = Snapshot([action |-> a, target_id |-> t])
  /\ pc' = "claim"
  /\ challenger' = Nobody
  /\ target_choice' = NoRole
  /\ offset' = 0
  /\ asked' = <<>>
  /\ answers' = <<>>
  /\ resolved' = <<>>
  /\ counters' = <<>>
  /\ execs' = <<>>
  /\ events' = <<>>
  /\ UNCHANGED <<game, seat, winner>>

\* Lines 1097-1118: the others are asked whether they challenge the claim.
ClaimPoll ==
  /\ pc = "claim"
  /\ LET role == ACTION_CONFIG[choice.action].required_role
     IN IF role = NoRole
        THEN /\ pc' = "cost"
             /\ UNCHANGED <<challenger, asked, events>>
        ELSE \E ans \in Answers :
               LET r == poll(influence, current_player_index, current_player, ans, 1)
               IN /\ challenger' = r.who
                  /\ asked' = asked \o AskedRecords("claim", r.asked, current_player,
                                                    role, r.who)
                  /\ events' = events \o Times(Len(r.asked), "challenge_or_not")
                  /\ pc' = IF r.who = Nobody THEN "cost" ELSE "challenge"
  /\ UNCHANGED <<game, seat, choice, target_choice, offset, winner,
                 sel, answers, resolved, counters, execs, n_turns>>

\* Lines 1119-1129: the challenge to the actor's claim is resolved.
ClaimResolve ==
  /\ pc = "challenge"
  /\ LET role == ACTION_CONFIG[choice.action].required_role
     IN \E o \in deal_challenge(influence, deck, current_player, challenger, role) :
          /\ influence' = o.infl
          /\ deck' = o.deck
          /\ resolved' = Append(resolved,
               [phase |-> "claim", accused |-> current_player, accuser |-> challenger,
                declarer |-> current_player, role |-> role, result |-> o.result,
                shown |-> o.shown,
                held |-> has_hidden_role(influence[current_player], role)])
          /\ IF after_claim_challenge(o.result) = "select"
             THEN /\ Advance(o.infl, "select")
                  /\ events' = events \o <<"deal_challenge", "advance">>
             ELSE /\ pc' = "cost"
                  /\ events' = Append(events, "deal_challenge")
                  /\ UNCHANGED seat
  /\ UNCHANGED <<coins, ctl, sel, asked, answers, counters, execs, n_turns>>

\* Line 1133: process_action_cost.
Cost ==
  /\ pc = "cost"
  /\ LET r == process_action_cost(coins[current_player], choice.action)
     IN /\ coins' = [coins EXCEPT ![current_player] = r.coins]
        /\ pc' = IF r.error THEN "error" ELSE "counter"
  /\ events' = Append(events, "cost")
  /\ UNCHANGED <<influence, deck, seat, ctl, sel, asked, answers, resolved,
                 counters, execs, n_turns>>

\* Lines 1137-1149: the target is asked for a counter.
CounterDeclare ==
  /\ pc = "counter"
  /\ IF enters_counter(choice)
     THEN \E tc \in Range(ACTION_CONFIG[choice.action].counterable_by) \cup {NoRole} :
            /\ target_choice' = tc
            /\ answers' = Append(answers, [who |-> choice.target_id, ans |-> tc,
                                           alive |-> is_alive(influence[choice.target_id])])
            /\ events' = Append(events, "target_answer")
            /\ pc' = IF tc # NoRole THEN "co_poll" ELSE "by_loop"
            /\ offset' = 1
     ELSE /\ pc' = "execute"
          /\ UNCHANGED <<target_choice, answers, events, offset>>
  /\ UNCHANGED <<game, seat, choice, challenger, winner, sel, asked, resolved,
                 counters, execs, n_turns>>

\* Lines 1150-1169 and 1183-1186: the others are asked whether they
\* challenge the target's counter; with no challenger the turn ends.
CoPoll ==
  /\ pc = "co_poll"
  /\ \E ans \in Answers :
       LET target_player == choice.target_id
           r == poll(influence, target_player, target_player, ans, 1)
       IN /\ challenger' = r.who
          /\ asked' = asked \o AskedRecords("counter", r.asked, target_player,
                                            target_choice, r.who)
          /\ counters' = Append(counters,
               [declarer |-> target_player, role |-> target_choice, challenger |-> r.who,
                held |-> has_hidden_role(influence[target_player], target_choice),
                upheld |-> (r.who = Nobody)])
          /\ IF r.who = Nobody
             THEN /\ Advance(influence, "select")
                  /\ events' = events \o Times(Len(r.asked), "challenge_or_not")
                                      \o <<"advance">>
             ELSE /\ pc' = "co_resolve"
                  /\ events' = events \o Times(Len(r.asked), "challenge_or_not")
                  /\ UNCHANGED seat
  /\ UNCHANGED <<game, choice, target_choice, offset, winner, sel, answers,
                 resolved, execs, n_turns>>

\* Lines 1171-1181: the challenge to the target's counter is resolved.
CoResolve ==
  /\ pc = "co_resolve"
  /\ LET target_player == choice.target_id
         accused == counter_accused(current_player, target_player)
     IN \E o \in deal_challenge(influence, deck, accused, challenger, target_choice) :
          /\ influence' = o.infl
          /\ deck' = o.deck
          /\ resolved' = Append(resolved,
               [phase |-> "counter", accused |-> accused, accuser |-> challenger,
                declarer |-> target_player, role |-> target_choice,
                result |-> o.result, shown |-> o.shown,
                held |-> has_hidden_role(influence[target_player], target_choice)])
          /\ counters' = [counters EXCEPT ![Len(counters)].upheld = ~o.result]
          /\ IF after_counter_challenge(o.result) = "select"
             THEN /\ Advance(o.infl, "select")
                  /\ events' = events \o <<"deal_challenge", "advance">>
             ELSE /\ pc' = "execute"
                  /\ events' = Append(events, "deal_challenge")
                  /\ UNCHANGED seat
  /\ UNCHANGED <<coins, ctl, sel, asked, answers, execs, n_turns>>

\* Lines 1189-1245, one pass of "for offset in range(1, n + 1)": the branch
\* taken when the target has declined.  The seat at current_player_index +
\* offset is asked for a counter; a counter is put to the others; the
\* `continue` after an upheld or unchallenged counter goes on with this
\* for loop, and the `break` after a refuted one leaves it.  After the last
\* pass run_game reaches execute_action.
ByStep ==
  /\ pc = "by_loop"
  /\ LET idx == (current_player_index + offset) % NumPlayers
         on  == IF offset = NumPlayers THEN "execute" ELSE "by_loop"
         cr  == Range(ACTION_CONFIG[choice.action].counterable_by)
     IN IF idx = current_player \/ ~is_alive(influence[idx])
        THEN /\ pc' = on
             /\ offset' = offset + 1
             /\ UNCHANGED <<game, seat, challenger, target_choice, asked, answers,
                            resolved, counters, events>>
        ELSE \E counter_choice \in cr \cup {NoRole} :
          /\ answers' = Append(answers, [who |-> idx, ans |-> counter_choice,
                                         alive |-> TRUE])
          /\ target_choice' = counter_choice
          /\ IF counter_choice = NoRole
             THEN /\ pc' = on
                  /\ offset' = offset + 1
                  /\ events' = Append(events, "target_answer")
                  /\ UNCHANGED <<game, seat, challenger, asked, resolved, counters>>
             ELSE \E ans \in Answers :
               LET r  == poll(influence, current_player_index, idx, ans, 1)
                   ev == Append(events, "target_answer")
                           \o Times(Len(r.asked), "challenge_or_not")
                   held == has_hidden_role(influence[idx], counter_choice)
               IN /\ challenger' = r.who
                  /\ asked' = asked \o AskedRecords("counter", r.asked, idx,
                                                    counter_choice, r.who)
                  /\ IF r.who = Nobody
                     THEN /\ Advance(influence, on)
                          /\ offset' = offset + 1
                          /\ events' = Append(ev, "advance")
                          /\ counters' = Append(counters,
                               [declarer |-> idx, role |-> counter_choice,
                                challenger |-> Nobody, held |-> held, upheld |-> TRUE])
                          /\ UNCHANGED <<game, resolved>>
                     ELSE \E o \in deal_challenge(influence, deck, idx, r.who,
                                                  counter_choice) :
                          /\ influence' = o.infl
                          /\ deck' = o.deck
                          /\ resolved' = Append(resolved,
                               [phase |-> "counter", accused |-> idx, accuser |-> r.who,
                                declarer |-> idx, role |-> counter_choice,
                                result |-> o.result, shown |-> o.shown,
                                held |-> held])
                          /\ counters' = Append(counters,
                               [declarer |-> idx, role |-> counter_choice,
                                challenger |-> r.who, held |-> held,
                                upheld |-> ~o.result])
                          /\ IF after_counter_challenge(o.result) = "select"
                             THEN /\ Advance(o.infl, on)
                                  /\ offset' = offset + 1
                                  /\ events' = ev \o <<"deal_challenge", "advance">>
                             ELSE /\ pc' = "execute"
                                  /\ offset' = offset
                                  /\ events' = Append(ev, "deal_challenge")
                                  /\ UNCHANGED seat
                          /\ UNCHANGED coins
  /\ UNCHANGED <<choice, winner, sel, execs, n_turns>>

\* Lines 1249-1253: execute_action(self.current_player, choice), then the
\* seat moves on.
Execute ==
  /\ pc = "execute"
  /\ \E o \in execute_action(coins, influence, deck, current_player, choice) :
       /\ coins' = o.coins
       /\ influence' = o.infl
       /\ deck' = o.deck
       /\ execs' = Append(execs,
            [actor |-> current_player, action |-> choice.action,
             target_id |-> choice.target_id, turn_count |-> turn_count,
             target_alive |-> (choice.target_id # Nobody
                                 /\ is_alive(influence[choice.target_id])),
             hand |-> influence[current_player],
             new_cards |-> o.new_cards, selected |-> o.selected])
       /\ IF o.error
          THEN /\ pc' = "error"
               /\ events' = Append(events, "execute")
               /\ UNCHANGED seat
          ELSE /\ Advance(o.infl, "select")
               /\ events' = events \o <<"execute", "advance">>
  /\ UNCHANGED <<ctl, sel, asked, answers, resolved, counters, n_turns>>

\* Lines 1080 and 1255-1262: the loop ends when at most one player is alive.
Finish ==
  /\ pc = "select"
  /\ is_game_over(influence)
  /\ pc' = "done"
  /\ winner' = IF alive_players(influence) = {} THEN Nobody
               ELSE CHOOSE p \in alive_players(influence) :
                      \A q \in alive_players(influence) : p <= q
  /\ UNCHANGED <<game, seat, choice, challenger, target_choice, offset, hist, n_turns>>

Next ==
  \/ Select
  \/ ClaimPoll
  \/ ClaimResolve
  \/ Cost
  \/ CounterDeclare
  \/ CoPoll
  \/ CoResolve
  \/ ByStep
  \/ Execute
  \/ Finish

Spec == Init /\ [][Next]_vars

\* get_player_choice of any Player (the base class leaves it to be
\* overridden): an action of the player's list with, where the action needs
\* a target, any player_id or None.  run_game takes the choice as it comes:
\* lines 1090-1097 only refuse a choice that is None.
SelectUnchecked ==
  /\ pc = "select"
  /\ n_turns < MaxTurns
  /\ n_turns' = n_turns + 1
  /\ ~is_game_over(influence)
  /\ \E a \in get_available_actions(coins[current_player]) :
       \E t \in (IF ACTION_CONFIG[a].requires_target
                 THEN Seats \cup {Nobody}
                 ELSE {Nobody}) :
         /\ choice' = [action |-> a, target_id |-> t]
         /\ sel' = Snapshot([action |-> a, target_id |-> t])
  /\ pc' = "claim"
  /\ challenger' = Nobody
  /\ target_choice' = NoRole
  /\ offset' = 0
  /\ asked' = <<>>
  /\ answers' = <<>>
  /\ resolved' = <<>>
  /\ counters' = <<>>
  /\ execs' = <<>>
  /\ events' = <<>>
  /\ UNCHANGED <<game, seat, winner>>

\* Lines 1249-1253 with a player of any kind in the exchange.
ExecuteUnchecked ==
  /\ pc = "execute"
  /\ \E o \in execute_action_unchecked(coins, influence, deck, current_player,
                                       choice) :
       /\ coins' = o.coins
       /\ influence' = o.infl
       /\ deck' = o.deck
       /\ execs' = Append(execs,
            [actor |-> current_player, action |-> choice.action,
             target_id |-> choice.target_id, turn_count |-> turn_count,
             target_alive |-> (choice.target_id # Nobody
                                 /\ is_alive(influence[choice.target_id])),
             hand |-> influence[current_player],
             new_cards |-> o.new_cards, selected |-> o.selected])
       /\ IF o.error
          THEN /\ pc' = "error"
               /\ events' = Append(events, "execute")
               /\ UNCHANGED seat
          ELSE /\ Advance(o.infl, "select")
               /\ events' = events \o <<"execute", "advance">>
  /\ UNCHANGED <<ctl, sel, asked, answers, resolved, counters, n_turns>>

NextUnchecked ==
  \/ SelectUnchecked
  \/ ClaimPoll
  \/ ClaimResolve
  \/ Cost
  \/ CounterDeclare
  \/ CoPoll
  \/ CoResolve
  \/ ByStep
  \/ ExecuteUnchecked
  \/ Finish

\* run_game with players whose choice of target is not restricted to the
\* target list and whose selection in an exchange is not restricted to the
\* pool.
SpecUnchecked == Init /\ [][NextUnchecked]_vars

--------------------------------------------------------------------------
(* What the claims speak of *)

HiddenCount(h) == Cardinality(HiddenIdx(h))

\* The seats after seat a in seating order, wrapping around, a left out.
SeatsAfter(a) == [i \in 1 .. (NumPlayers - 1) |-> (a + i) % NumPlayers]

\* The living seats after seat a, in seating order.
LivingAfter(infl, a) == SelectSeq(SeatsAfter(a), LAMBDA p : is_alive(infl[p]))

Who(log) == [i \in 1 .. Len(log) |-> log[i].who]

IsPrefix(s, t) == Len(s) <= Len(t) /\ \A i \in 1 .. Len(s) : s[i] = t[i]

ClaimAsked == SelectSeq(asked, LAMBDA a : a.phase = "claim")

Positions(e) == {i \in 1 .. Len(events) : events[i] = e}

\* The pass of the while loop is over: run_game is back at its head, or out
\* of the loop.
TurnOver == pc \in {"select", "done"} /\ events # <<>>

\* execute_action was called once, for the player who chose and the chosen
\* target.
ExecutedAsChosen ==
  /\ Len(execs) = 1
  /\ execs[1].actor = sel.actor
  /\ execs[1].action = sel.action
  /\ execs[1].target_id = sel.target_id

--------------------------------------------------------------------------
(* Claims *)

\* C1: the cards in the deck plus the influence cards of all players,
\* face-down and revealed, number 5 x copiesPerRole in every state.
C1_CardConservation ==
  DeckSize(deck) + SumOver([p \in Seats |-> Len(influence[p])], Seats)
    = 5 * CopiesPerRole

\* C2: when the action claims a role, challenge_or_not is put to the living
\* players other than the actor in seat order from the seat after the
\* actor, wrapping around, up to the first who says yes and no further;
\* without a claimed role it is put to nobody.
C2_ClaimPolling ==
  LET role  == ACTION_CONFIG[sel.action].required_role
      order == LivingAfter(sel.influence, sel.actor)
      n     == Len(ClaimAsked)
  IN /\ role = NoRole => ClaimAsked = <<>>
     /\ IsPrefix(Who(ClaimAsked), order)
     /\ \A i \in 1 .. n :
          /\ ClaimAsked[i].whom = sel.actor
          /\ ClaimAsked[i].role = role
          /\ ClaimAsked[i].ans => i = n
     /\ (role # NoRole /\ pc # "claim" /\ n_turns > 0) =>
          \/ /\ n > 0
             /\ ClaimAsked[n].ans
             /\ pc = "challenge" => challenger = ClaimAsked[n].who
          \/ /\ n = Len(order)
             /\ \A i \in 1 .. n : ~ClaimAsked[i].ans
             /\ pc # "challenge"

\* C2, reached: seat 1 claims a role, seat 2 lets it pass and seat 0, asked
\* after the wrap-around, challenges.
C2_Witness ==
  /\ sel.actor = 1
  /\ Who(ClaimAsked) = <<2, 0>>
  /\ ClaimAsked[2].ans
  /\ challenger = 0

\* C3: a challenged claim that is not upheld (the actor does not hold the
\* role face-down, or does not show it) costs the actor exactly one
\* face-down card; nothing is executed, no coin is charged, nobody is asked
\* for a counter, and the turn ends with the seat moved on and turn_count
\* one higher.
C3_CaughtBluffCancels ==
  (resolved # <<>> /\ resolved[1].phase = "claim" /\ resolved[1].result) =>
    /\ HiddenCount(influence[sel.actor]) = HiddenCount(sel.influence[sel.actor]) - 1
    /\ \A p \in Seats \ {sel.actor} : influence[p] = sel.influence[p]
    /\ execs = <<>>
    /\ coins = sel.coins
    /\ answers = <<>>
    /\ pc \in {"select", "done"}
    /\ turn_count = sel.turn_count + 1
    /\ current_player_index = Head(LivingAfter(influence, sel.actor))
    /\ current_player = current_player_index

\* C3, reached: seat 1, holding captain and contessa, claims duke for TAX,
\* is challenged and loses a card.
C3_Witness ==
  /\ sel.action = "tax"
  /\ sel.actor = 1
  /\ resolved # <<>>
  /\ resolved[1].phase = "claim"
  /\ resolved[1].result
  /\ ~resolved[1].held
  /\ pc = "select"

\* C4: when a counter is challenged, the accused handed to the resolver is
\* the player who declared the counter.
C4_CounterAccusedIsDeclarer ==
  \A i \in 1 .. Len(resolved) :
    resolved[i].phase = "counter" => resolved[i].accused = resolved[i].declarer

\* C5: after a challenged counter, the action is executed for the actor and
\* target chosen when the declarer did not hold the declared role face-down,
\* and is not executed at all when the declarer held it and showed it.
C5_ChallengedCounterOutcome ==
  TurnOver =>
    \A i \in 1 .. Len(resolved) :
      resolved[i].phase = "counter" =>
        /\ ~resolved[i].held => ExecutedAsChosen
        /\ (resolved[i].held /\ resolved[i].accused = resolved[i].declarer
              /\ ~resolved[i].result) => execs = <<>>

\* C6: a counter nobody challenges cancels the action: nothing is executed,
\* nobody is asked anything more, and the turn ends at once with one move
\* to the next living player.
C6_UnchallengedCounterCancels ==
  \A i \in 1 .. Len(counters) :
    counters[i].challenger = Nobody =>
      /\ execs = <<>>
      /\ i = Len(counters)
      /\ pc \in {"select", "done"}
      /\ Cardinality(Positions("advance")) = 1
      /\ events[Len(events)] = "advance"
      /\ turn_count = sel.turn_count + 1

\* C7: for STEAL and ASSASSINATE only the target is asked for a counter, at
\* most once, and when the target declines nobody else is asked and the
\* action is executed.
C7_OnlyTargetAsked ==
  sel.action \in {"steal", "assassinate"} =>
    /\ Len(answers) <= 1
    /\ \A i \in 1 .. Len(answers) : answers[i].who = sel.target_id
    /\ (answers # <<>> /\ answers[1].ans = NoRole) =>
         /\ counters = <<>>
         /\ TurnOver => ExecutedAsChosen

\* C8: a STEAL or ASSASSINATE that has passed the claim challenge and the
\* cost phase is not executed before its target was asked for a counter,
\* whichever seat the target has.
C8_TargetAskedBeforeExecution ==
  (sel.action \in {"steal", "assassinate"} /\ (pc = "execute" \/ execs # <<>>)) =>
    \E i \in 1 .. Len(answers) : answers[i].who = sel.target_id

C10_CostNotRefunded ==
  /\ answers # <<>> =>
       /\ Positions("cost") # {}
       /\ \A i \in Positions("cost"), j \in Positions("target_answer") : i < j
  /\ (TurnOver /\ sel.action = "assassinate"
        /\ \E i \in 1 .. Len(counters) : counters[i].upheld) =>
       /\ coins[sel.actor] = sel.coins[sel.actor] - 3
       /\ execs = <<>>

\* The first living seat after seat a in seating order, wrapping around; a
\* itself when no other seat is alive.
FirstLivingAfter(infl, a) ==
  IF LivingAfter(infl, a) = <<>> THEN a ELSE Head(LivingAfter(infl, a))

\* C11: however a turn is resolved, when it is over turn_count is one more
\* than when the action was chosen, and the player on turn is the first
\* living player in seat order after the one who chose.
C11_OneAdvancePerTurn ==
  TurnOver =>
    /\ turn_count = sel.turn_count + 1
    /\ current_player_index = FirstLivingAfter(influence, sel.actor)
    /\ current_player = current_player_index

\* C12: an action is chosen only while two or more players are alive, the
\* loop of run_game is left only when at most one is, and a sole survivor is
\* the winner reported.
C12_TerminalCondition ==
  /\ n_turns > 0 => Cardinality(alive_players(sel.influence)) >= 2
  /\ pc = "done" =>
       /\ Cardinality(alive_players(influence)) <= 1
       /\ \A p \in Seats : alive_players(influence) = {p} => winner = p
       /\ alive_players(influence) = {} => winner = Nobody

\* C12, reached: seat 2 loses its last card on a failed challenge, seat 0 is
\* the only player left, the loop ends and seat 0 is the winner.
C12_Witness ==
  /\ pc = "done"
  /\ n_turns = 1
  /\ resolved # <<>>
  /\ alive_players(sel.influence) = {0, 2}
  /\ alive_players(influence) = {0}
  /\ winner = 0

\* C13: for a living accused and another player as accuser, deal_challenge
\* returns True exactly when the accused holds no face-down card of the
\* role or holds one and does not show it; the accused then has exactly one
\* face-down card less, and the other hands (the accuser's among them), the
\* deck and the coins are as before.
C13_ChallengeCorrectness ==
  [][Len(resolved') = Len(resolved) + 1 =>
       LET r == resolved'[Len(resolved')]
           a == r.accused
       IN (a # r.accuser /\ is_alive(influence[a])) =>
            /\ (r.result <=> (~has_hidden_role(influence[a], r.role) \/ ~r.shown))
            /\ r.result =>
                 /\ HiddenCount(influence'[a]) = HiddenCount(influence[a]) - 1
                 /\ Len(influence'[a]) = Len(influence[a])
                 /\ \A p \in Seats \ {a} : influence'[p] = influence[p]
                 /\ deck' = deck
                 /\ coins' = coins]_vars

\* C13, reached: seat 0 holds the duke it claims for TAX, is challenged by
\* another player and does not show it.
C13_Witness ==
  /\ resolved # <<>>
  /\ resolved[1].phase = "claim"
  /\ resolved[1].accused = 0
  /\ resolved[1].accuser # 0
  /\ resolved[1].role = "duke"
  /\ resolved[1].held
  /\ ~resolved[1].shown
  /\ resolved[1].result
  /\ HiddenCount(influence[0]) = HiddenCount(sel.influence[0]) - 1

\* How many face-down cards of role x hand h holds.
HiddenOf(h, x) == Cardinality({i \in HiddenIdx(h) : h[i].role = x})

\* C14: when the accused holds the role face-down and shows it,
\* deal_challenge returns False; one face-down card of that role goes from
\* the accused's hand into the deck and one card drawn from the deck is
\* added face-down, so the accused's number of cards, its number of
\* face-down cards and the size of the deck are as before; and the accuser
\* has exactly one face-down card less.
C14_ProvenClaimSwap ==
  [][(Len(resolved') = Len(resolved) + 1 /\ resolved'[Len(resolved')].shown) =>
       LET r == resolved'[Len(resolved')]
           a == r.accused
           b == r.accuser
       IN /\ ~r.result
          /\ \E c \in Role :
               /\ deck' = [x \in Role |-> deck[x] + (IF x = r.role THEN 1 ELSE 0)
                                                  - (IF x = c THEN 1 ELSE 0)]
               /\ \A x \in Role :
                    HiddenOf(influence'[a], x) =
                      HiddenOf(influence[a], x) - (IF x = r.role THEN 1 ELSE 0)
                                                + (IF x = c THEN 1 ELSE 0)
          /\ Len(influence'[a]) = Len(influence[a])
          /\ HiddenCount(influence'[a]) = HiddenCount(influence[a])
          /\ DeckSize(deck') = DeckSize(deck)
          /\ HiddenCount(influence'[b]) = HiddenCount(influence[b]) - 1]_vars

\* How many revealed cards of role x hand h holds.
RevealedOf(h, x) ==
  Cardinality({i \in 1 .. Len(h) : h[i].role = x /\ h[i].is_revealed})

\* C15: a player is alive exactly when one of its cards is face-down; no
\* step gives a player without face-down cards one again, and no step turns
\* a revealed card face-down or takes it out of the hand.
C15_DerivedAliveness ==
  [][\A p \in Seats :
       /\ is_alive(influence[p]) <=> HiddenCount(influence[p]) > 0
       /\ is_alive(influence'[p]) <=> HiddenCount(influence'[p]) > 0
       /\ HiddenCount(influence[p]) = 0 => HiddenCount(influence'[p]) = 0
       /\ \A x \in Role :
            RevealedOf(influence'[p], x) >= RevealedOf(influence[p], x)]_vars

\* C15, reached: seat 1, with its contessa revealed, has exchanged its
\* face-down captain for a duke from the deck and still shows the contessa.
C15_Witness ==
  /\ execs # <<>>
  /\ execs[1].action = "exchange"
  /\ execs[1].actor = 1
  /\ sel.influence[1] = <<Influence("captain"), Revealed("contessa")>>
  /\ influence[1] = <<Revealed("contessa"), Influence("duke")>>

\* C16: no player ever holds fewer than 0 coins; when the cost is about to
\* be charged the actor can pay it, and process_action_cost never raises.
C16_CoinsNeverNegative ==
  /\ \A p \in Seats : coins[p] >= 0
  /\ pc = "cost" =>
       coins[current_player] >= ACTION_CONFIG[choice.action].coins_cost
  /\ ~(pc = "error" /\ events # <<>> /\ events[Len(events)] = "cost")

\* C16, reached: a player with exactly 7 coins has paid for a COUP and holds
\* 0 coins.
C16_Witness ==
  /\ sel.action = "coup"
  /\ sel.coins[sel.actor] = 7
  /\ Positions("cost") # {}
  /\ coins[sel.actor] = 0

\* The legal actions for c coins, in the four ranges of the rule.
LegalActions(c) ==
  LET always == {"income", "foreign_aid", "tax", "exchange", "steal"}
  IN CASE c < 3  -> always
       [] c >= 3 /\ c < 7  -> always \cup {"assassinate"}
       [] c >= 7 /\ c < 10 -> always \cup {"assassinate", "coup"}
       [] c >= 10 -> {"coup"}

\* C17: for every coin count the list of get_available_actions is the legal
\* set of the rule (COUP alone from 10 coins on), and the action a player
\* chose is in the legal set for the coins it held.
C17_LegalActionSet ==
  /\ \A c \in 0 .. MaxCoins : get_available_actions(c) = LegalActions(c)
  /\ n_turns > 0 => sel.action \in LegalActions(sel.coins[sel.actor])

\* C17, reached: a player holding 10 coins or more had COUP alone to choose
\* from, chose it, and the turn was played.
C17_Witness ==
  /\ n_turns > 0
  /\ sel.coins[sel.actor] >= 10
  /\ sel.action = "coup"
  /\ get_available_actions(sel.coins[sel.actor]) = {"coup"}
  /\ pc = "select"

\* C18: for every number of players from 3 to 10 the sized deck holds the 2
\* cards of each player and, after the deal, the 2 cards an EXCHANGE draws;
\* and whenever an EXCHANGE is executed the deck holds 2 cards, so
\* Deck.draw never raises.
C18_DeckSizing ==
  /\ \A pls \in MinPlayers .. MaxPlayersAllowed :
       /\ 5 * copies_per_role(pls) >= 2 * pls
       /\ deck_after_deal(pls) >= 2
  /\ (pc = "execute" /\ choice.action = "exchange") => DeckSize(deck) >= 2
  /\ ~(pc = "error" /\ execs # <<>> /\ execs[Len(execs)].action = "exchange")

\* The choice made names no target, the actor itself or a dead player,
\* where the action needs a target.
InvalidTarget ==
  /\ n_turns > 0
  /\ ACTION_CONFIG[sel.action].requires_target
  /\ \/ sel.target_id = Nobody
     \/ sel.target_id = sel.actor
     \/ ~is_alive(sel.influence[sel.target_id])

\* C19: a choice with an invalid target gets no further: nobody is asked to
\* challenge, no cost is charged, nothing is executed and coins, hands and
\* deck stay as they were.
C19_TargetValidation ==
  InvalidTarget =>
    /\ events = <<>>
    /\ asked = <<>>
    /\ execs = <<>>
    /\ coins = sel.coins
    /\ influence = sel.influence
    /\ deck = sel.deck

\* C20: challenge_or_not, target_answer and lose_influence are only ever
\* put to a player who holds a face-down card at that moment: the players
\* newly asked in a step, the loser of a challenge resolved in it and the
\* target of an ASSASSINATE or COUP executed in it were alive before it.
C20_NoDeadInteraction ==
  [][/\ \A i \in (Len(asked) + 1) .. Len(asked') :
          is_alive(influence[asked'[i].who])
     /\ \A i \in (Len(answers) + 1) .. Len(answers') :
          is_alive(influence[answers'[i].who])
     /\ \A i \in (Len(resolved) + 1) .. Len(resolved') :
          LET r == resolved'[i]
          IN is_alive(influence[IF r.result THEN r.accused ELSE r.accuser])
     /\ \A i \in (Len(execs) + 1) .. Len(execs') :
          execs'[i].action \in {"assassinate", "coup"} => execs'[i].target_alive]_vars

\* C21: lose_influence called on a player whose cards are all revealed does
\* not return normally: when a handler has called it on such a target, the
\* run has stopped with an error.
C21_LoseInfluenceFails ==
  \A i \in 1 .. Len(execs) :
    (/\ execs[i].action \in {"assassinate", "coup"}
     /\ execs[i].target_id # Nobody
     /\ ~execs[i].target_alive) => pc = "error"

\* How often role x occurs in the list s.
Count(s, x) == Cardinality({i \in 1 .. Len(s) : s[i] = x})

\* The exchange logged in e asked the player for a selection out of the two
\* cards drawn and the hand's face-down roles.
Exchanged(e) == e.action = "exchange" /\ e.new_cards # <<>>

Pool(e) == e.new_cards \o hidden_cards(e.hand)

\* The selection has the wrong number of cards, or more copies of a role
\* than the pool holds.
InvalidSelection(e) ==
  \/ Len(e.selected) # Len(hidden_cards(e.hand))
  \/ \E x \in Role : Count(e.selected, x) > Count(Pool(e), x)

\* C22: an exchange whose selection has the wrong count or is not taken from
\* the pool fails with an error and leaves the player's hand as it was.
C22_InvalidSelectionRejected ==
  \A i \in 1 .. Len(execs) :
    (Exchanged(execs[i]) /\ InvalidSelection(execs[i])) =>
      /\ pc = "error"
      /\ influence[execs[i].actor] = execs[i].hand

\* The challenge_or_not calls a step has added to the log.
NewlyAsked == SubSeq(asked', Len(asked) + 1, Len(asked'))

\* C23: when a counter has been declared, whether by the target or by
\* another player, challenge_or_not is put to the living players other than
\* the declarer in seat order from the seat after the declarer, wrapping
\* around, up to the first who says yes.
C23_CounterPollingOrder ==
  [][(NewlyAsked # <<>> /\ NewlyAsked[1].phase = "counter") =>
       LET order == LivingAfter(influence, NewlyAsked[1].whom)
           n     == Len(NewlyAsked)
       IN /\ IsPrefix(Who(NewlyAsked), order)
          /\ \A i \in 1 .. n : NewlyAsked[i].ans => i = n
          /\ (\A i \in 1 .. n : ~NewlyAsked[i].ans) => n = Len(order)]_vars

--------------------------------------------------------------------------
(* The deal *)

\* A deal that copies the two cards instead of popping them off the deck.
RECURSIVE initialize_players_no_pop(_, _)
initialize_players_no_pop(dk, pls) ==
  IF pls = 0 THEN {[players |-> <<>>, deck |-> dk]}
  ELSE UNION {{[players |-> Append(o.players,
                                   [coins |-> 2,
                                    influence |-> <<Influence(p[1]), Influence(p[2])>>]),
                deck |-> o.deck] : p \in Draw2(o.deck)} :
              o \in initialize_players_no_pop(dk, pls - 1)}

\* GameManager.initialize_players on a deck dk: each of the pls players is
\* created with the 2 cards of self.deck.draw(2), face-down, and the 2 coins
\* of Player.__init__; players[k] gets player_id k - 1 ("for idx, player in
\* enumerate(self.players): player.player_id = idx").  The shuffle of the
\* list only reorders the deals listed here.
RECURSIVE initialize_players(_, _)
initialize_players(dk, pls) ==
  IF pls = 0 THEN {[players |-> <<>>, deck |-> dk]}
  ELSE UNION {{[players |-> Append(o.players,
                                   [coins |-> 2,
                                    influence |-> <<Influence(p[1]), Influence(p[2])>>]),
                deck |-> TakeOut(o.deck, p)] : p \in Draw2(o.deck)} :
              o \in initialize_players(dk, pls - 1)}

\* Deck(self.i) for a game of pls players.
NewDeck(pls) == [r \in Role |-> copies_per_role(pls)]

\* The state GameManager.__init__ leaves is the first head of the loop.
AfterSetup == turn_count = 1 /\ pc = "select" /\ n_turns = 0

\* What the deal o gives to its pls players and leaves of the deck dk.
DealtFrom(o, dk, pls) ==
  /\ DOMAIN o.players = 1 .. pls
  /\ \A k \in 1 .. pls :
       /\ Len(o.players[k].influence) = 2
       /\ HiddenCount(o.players[k].influence) = 2
       /\ o.players[k].coins = 2
  /\ \A r \in Role :
       o.deck[r] = dk[r] - SumOver([k \in 1 .. pls |->
                                      Count(Roles(o.players[k].influence), r)],
                                   1 .. pls)

\* C24 (as amended): after setup every player holds 2 face-down influences
\* and 2 coins, the players are numbered 0 .. n-1 in seat order and the deck
\* holds the cards not dealt; a 4-player game gets 3 copies of each role and
\* its deck holds 7 cards after the deal.
C24_InitialState ==
  AfterSetup =>
    /\ \E o \in initialize_players(NewDeck(NumPlayers), NumPlayers) :
         /\ DOMAIN influence = 0 .. (NumPlayers - 1)
         /\ \A p \in Seats : /\ influence[p] = o.players[p + 1].influence
                             /\ coins[p] = o.players[p + 1].coins
         /\ deck = o.deck
    /\ \A o \in initialize_players(NewDeck(NumPlayers), NumPlayers) :
         /\ DealtFrom(o, NewDeck(NumPlayers), NumPlayers)
         /\ DeckSize(o.deck) = deck_after_deal(NumPlayers)
    /\ copies_per_role(4) = 3
    /\ deck_after_deal(4) = 7

\* The state after setup is reached: three players with 2 coins and 2
\* face-down cards each, and the 9 cards not dealt in the deck.
C24_Witness ==
  /\ AfterSetup
  /\ \A p \in Seats : coins[p] = 2 /\ HiddenCount(influence[p]) = 2
  /\ DeckSize(deck) = 9

\* C24 as stated: the deck of a 4-player game holds 20 cards after the deal.
C24_TwentyCardsRemain ==
  AfterSetup => (copies_per_role(4) = 3 /\ deck_after_deal(4) = 20)

\* C25: within a turn execute_action is called at most once, with the player
\* who chose the action as actor and the chosen target as target, and never
\* after the seat has been advanced in that turn.
C25_ExecutedOnceForChooser ==
  /\ Len(execs) <= 1
  /\ \A i \in 1 .. Len(execs) :
       /\ execs[i].actor = sel.actor
       /\ execs[i].target_id = sel.target_id
  /\ \A j \in Positions("advance"), k \in Positions("execute") : k < j

\* The step calls execute_action: the record it adds to the log.
Executing == Len(execs') = Len(execs) + 1

LastExec == execs'[Len(execs')]

Min(a, b) == IF a < b THEN a ELSE b

\* C26: when STEAL is executed the target has min(2, target.coins) coins
\* less and the actor as many more, the coins of all players together are
\* as many as before, and no influence and no card of the deck changes.
C26_StealEffect ==
  [][(Executing /\ LastExec.action = "steal" /\ LastExec.target_id # Nobody) =>
       LET a      == LastExec.actor
           t      == LastExec.target_id
           stolen == Min(2, coins[t])
       IN /\ coins'[t] = coins[t] - stolen
          /\ coins'[a] = coins[a] + stolen
          /\ \A p \in Seats \ {a, t} : coins'[p] = coins[p]
          /\ SumOver(coins', Seats) = SumOver(coins, Seats)
          /\ influence' = influence
          /\ deck' = deck]_vars

\* The cards of hand h, face-down or revealed, in list order.
SameCards(h, g) == Roles(h) = Roles(g)

\* C27: in a turn in which COUP was chosen against a living target nobody
\* is asked challenge_or_not or target_answer; when the turn is over the
\* COUP has been executed, the actor has 7 coins less, the target one
\* face-down card less (the same cards, one more revealed), and no other
\* player's coins or influences have changed.
C27_CoupUnstoppable ==
  (/\ sel.action = "coup"
   /\ sel.target_id \in Seats
   /\ is_alive(sel.influence[sel.target_id])) =>
    /\ asked = <<>>
    /\ answers = <<>>
    /\ resolved = <<>>
    /\ Positions("challenge_or_not") \cup Positions("target_answer") = {}
    /\ TurnOver =>
         /\ ExecutedAsChosen
         /\ coins[sel.actor] = sel.coins[sel.actor] - 7
         /\ \A p \in Seats \ {sel.actor} : coins[p] = sel.coins[p]
         /\ HiddenCount(influence[sel.target_id])
              = HiddenCount(sel.influence[sel.target_id]) - 1
         /\ SameCards(influence[sel.target_id], sel.influence[sel.target_id])
         /\ \A p \in Seats \ {sel.target_id} : influence[p] = sel.influence[p]

\* A COUP has been executed and the turn is over.
C27_Witness ==
  /\ TurnOver
  /\ sel.action = "coup"
  /\ is_alive(sel.influence[sel.target_id])
  /\ execs # <<>>
  /\ execs[1].action = "coup"
  /\ HiddenCount(influence[sel.target_id]) = 1

\* What IncomeHandler and TaxHandler pay.
Gain(action) == IF action = "income" THEN 1 ELSE 3

\* C28: when a turn in which INCOME was chosen, or TAX was chosen and nobody
\* challenged, is over, the action has been executed, the actor has 1
\* (INCOME) or 3 (TAX) coins more, and every other player's coins, every
\* player's influences and the deck are as they were.
C28_CoinActionFrame ==
  (/\ TurnOver
   /\ sel.action \in {"income", "tax"}
   /\ \A i \in 1 .. Len(asked) : ~asked[i].ans) =>
    /\ ExecutedAsChosen
    /\ coins[sel.actor] = sel.coins[sel.actor] + Gain(sel.action)
    /\ \A p \in Seats \ {sel.actor} : coins[p] = sel.coins[p]
    /\ influence = sel.influence
    /\ DeckSize(deck) = DeckSize(sel.deck)
    /\ deck = sel.deck

\* A TAX that every other living player was asked about and nobody
\* challenged has paid its 3 coins.
C28_Witness ==
  /\ TurnOver
  /\ sel.action = "tax"
  /\ Len(asked) = 2
  /\ \A i \in 1 .. Len(asked) : ~asked[i].ans
  /\ sel.coins[sel.actor] = 7
  /\ coins[sel.actor] = 10

\* The revealed cards of hand h, in list order.
revealed_cards(h) ==
  LET rev == SelectSeq(h, LAMBDA c : c.is_revealed)
  IN [i \in 1 .. Len(rev) |-> rev[i].role]

\* C29: a two-card exchange that succeeds leaves the player as many
\* face-down cards as before (keep_count), the face-down roles are exactly
\* the roles selected, none of the former face-down cards is left in the hand
\* beside them, and the player's revealed cards and coins and every other
\* player's coins and influences are as before.
C29_ExchangeKeepsHandShape ==
  [][(Executing /\ LastExec.action = "exchange" /\ pc' # "error") =>
       LET a == LastExec.actor
       IN /\ HiddenCount(influence'[a]) = HiddenCount(influence[a])
          /\ Len(LastExec.selected) = HiddenCount(influence[a])
          /\ hidden_cards(influence'[a]) = LastExec.selected
          /\ revealed_cards(influence'[a]) = revealed_cards(influence[a])
          /\ Len(influence'[a]) = Len(influence[a])
          /\ coins' = coins
          /\ \A p \in Seats \ {a} : influence'[p] = influence[p]]_vars

\* A player with one card revealed has exchanged its face-down card for one
\* of the two cards drawn.
C29_Witness ==
  /\ execs # <<>>
  /\ execs[1].action = "exchange"
  /\ pc = "select"
  /\ revealed_cards(execs[1].hand) # <<>>
  /\ hidden_cards(influence[execs[1].actor]) = execs[1].selected
  /\ execs[1].selected # hidden_cards(execs[1].hand)
  /\ execs[1].selected[1] \in Range(execs[1].new_cards)

\* C30: a two-card exchange that succeeds returns to the deck the pool (the
\* 2 cards drawn and the former face-down roles) less the roles selected,
\* counted with their copies: 2 cards, so the deck is as large after the
\* exchange as before it.
C30_ExchangeReturnsLeftovers ==
  [][(Executing /\ LastExec.action = "exchange" /\ pc' # "error") =>
       /\ \A r \in Role :
            deck'[r] = deck[r] - Count(LastExec.new_cards, r)
                         + (Count(Pool(LastExec), r) - Count(LastExec.selected, r))
       /\ DeckSize(deck') = DeckSize(deck)]_vars

\* C31: at the head of every turn players[current_player_index] is the
\* current player and is alive, and the players are numbered by their seats
\* throughout.
C31_CurrentPlayerAlive ==
  /\ DOMAIN influence = 0 .. (NumPlayers - 1)
  /\ DOMAIN coins = DOMAIN influence
  /\ pc = "select" =>
       /\ current_player_index \in Seats
       /\ current_player = current_player_index
       /\ is_alive(influence[current_player])

\* A turn has ended with the seat moving past a dead player to a living one.
C31_Witness ==
  /\ TurnOver
  /\ pc = "select"
  /\ current_player_index # (sel.actor + 1) % NumPlayers
  /\ ~is_alive(influence[(sel.actor + 1) % NumPlayers])
  /\ current_player_index # sel.actor
  /\ is_alive(influence[current_player])

\* C32: whenever the seat is advanced a player is alive, so the loop of
\* get_current_player ends within one pass over the seats: no turn leaves
\* every player without a face-down card.
C32_AdvanceTerminates ==
  /\ alive_players(influence) # {}
  /\ pc # "hang"

==========================================================================
